---- MODULE Spec2Model ----
(***************************************************************************)
(* Model of the seekr fact-checking pipeline: the four evidence source     *)
(* adapters (llm/search_apis.py), the LLM gateway (llm/gateway.py), the    *)
(* multi-source verifier (engines/multi_source_verifier.py), the           *)
(* knowledge-base fact-check engine (engines/fact_checker.py) and the      *)
(* pydantic result models (models/fact_check.py).                          *)
(*                                                                         *)
(* Floats are integers in hundredths (0.7 is 70).  A Python call either    *)
(* returns a value or raises: an outcome is [raised, value] where raised   *)
(* is "none" or the name of the exception class.                           *)
(***************************************************************************)
EXTENDS Integers, Sequences, FiniteSets, TLC

VARIABLES api_key, tavily_client, serpapi, total_api_calls, total_tokens_used,
          episodes_parsed, errors, pc, call, ret, trace

vars == <<api_key, tavily_client, serpapi, total_api_calls, total_tokens_used,
          episodes_parsed, errors, pc, call, ret, trace>>

config == <<api_key, tavily_client, serpapi>>
stats == <<total_api_calls, total_tokens_used>>
parser == <<episodes_parsed, errors>>

(***************************************************************************)
(* Bounds of the exploration.                                              *)
(***************************************************************************)
MaxApiCalls == 2
MaxRawItems == 2
MaxResultsArg == 3
MaxClaimItems == 3
MaxChecks == 4

(***************************************************************************)
(* Python values.                                                          *)
(***************************************************************************)
None == "<None>"
Absent == "<absent>"
NoValue == [none |-> TRUE]

Ok(v) == [raised |-> "none", value |-> v]
Raise(e) == [raised |-> e, value |-> NoValue]

Min(a, b) == IF a < b THEN a ELSE b
Max(a, b) == IF a > b THEN a ELSE b

\* xs[:n] of a Python list, for any integer n (a negative n counts from the end)
SliceTo(xs, n) ==
    LET k == IF n >= 0 THEN Min(n, Len(xs)) ELSE Max(Len(xs) + n, 0)
    IN SubSeq(xs, 1, k)

RECURSIVE Concat(_)
Concat(lists) == IF lists = <<>> THEN <<>> ELSE Head(lists) \o Concat(Tail(lists))

(***************************************************************************)
(* models/fact_check.py: the enumerations.                                 *)
(***************************************************************************)
ClaimType == {"statistic", "date", "company", "technology", "prediction",
              "regulation", "other"}

\* member name -> value of class VerificationStatus
VerificationStatus ==
    [n \in {"VERIFIED", "PARTIALLY_VERIFIED", "UNVERIFIED", "INCORRECT",
            "UNABLE_TO_VERIFY"} |->
        CASE n = "VERIFIED" -> "verified"
          [] n = "PARTIALLY_VERIFIED" -> "partially_verified"
          [] n = "UNVERIFIED" -> "unverified"
          [] n = "INCORRECT" -> "incorrect"
          [] n = "UNABLE_TO_VERIFY" -> "unable_to_verify"]

StatusValues == {VerificationStatus[n] : n \in DOMAIN VerificationStatus}

\* VerificationStatus.<name>: attribute access on the enum class
StatusAttr(name) ==
    IF name \in DOMAIN VerificationStatus
    THEN Ok(VerificationStatus[name])
    ELSE Raise("AttributeError")

\* VerificationStatus(<string>): lookup by value
StatusByValue(s) ==
    IF s \in StatusValues THEN Ok(s) ELSE Raise("ValueError")

(***************************************************************************)
(* llm/search_apis.py: SearchResult and the four adapters.                 *)
(***************************************************************************)
Adapters == {"perplexity", "tavily", "google_factcheck", "serpapi"}

PerplexitySnippetLen == 500
PerplexityTopScore == 100
PerplexityStep == 10
PerplexityTextScore == 80
GoogleScore == 90
SerpScore == 70

\* SearchResult(...): pydantic validation of the score bounds (ge=0, le=1)
SearchResultValid(r) == r.score >= 0 /\ r.score <= 100

\* What the provider would answer if it were called.
\*   kind   : "network_error" | "http_error" | "malformed" | "ok"
\*   items  : the raw result entries (citations / results / claims / organic)
\*   content: length of the answer text (Perplexity)
RawUrls == {"u1", None}
RawScores == {60, 150}
RawItem == [url : RawUrls, score : RawScores, review : BOOLEAN]
RawLists == UNION {[1..n -> RawItem] : n \in 0..MaxRawItems}
ProviderFailures == {[kind |-> k, items |-> <<>>, content |-> 0] :
                        k \in {"network_error", "http_error", "malformed"}}
ProviderResponses ==
    ProviderFailures \cup
    {[kind |-> "ok", items |-> xs, content |-> c] : xs \in RawLists, c \in {0, 600}}
NoResponse == [kind |-> "not_called", items |-> <<>>, content |-> 0]

\* the results built inside the try block of each search()
PerplexityResults(resp, max_results) ==
    LET cits == SliceTo(resp.items, max_results)
        fromCits == [i \in 1..Len(cits) |->
                        [title |-> <<"Source", i>>, url |-> cits[i].url,
                         snippet |-> Min(resp.content, PerplexitySnippetLen),
                         score |-> PerplexityTopScore - (i - 1) * PerplexityStep,
                         source_api |-> "perplexity"]]
    IN IF fromCits = <<>> /\ resp.content > 0
       THEN << [title |-> <<"Perplexity Analysis", 0>>, url |-> None,
                snippet |-> Min(resp.content, PerplexitySnippetLen),
                score |-> PerplexityTextScore, source_api |-> "perplexity"] >>
       ELSE fromCits

TavilyResults(resp, max_results) ==
    [i \in 1..Len(resp.items) |->
        [title |-> <<"Result", 0>>, url |-> resp.items[i].url, snippet |-> 150,
         score |-> resp.items[i].score, source_api |-> "tavily"]]

GoogleResults(resp, max_results) ==
    LET claims == SliceTo(resp.items, max_results)
        reviewed == SelectSeq(claims, LAMBDA c : c.review)
    IN [i \in 1..Len(reviewed) |->
           [title |-> <<"Claim", 0>>, url |-> reviewed[i].url, snippet |-> 40,
            score |-> GoogleScore, source_api |-> "google_factcheck"]]

SerpResults(resp, max_results) ==
    LET organic == SliceTo(resp.items, max_results)
    IN [i \in 1..Len(organic) |->
           [title |-> <<"Organic", 0>>, url |-> organic[i].url, snippet |-> 250,
            score |-> SerpScore, source_api |-> "serpapi"]]

BuildResults(a, resp, max_results) ==
    CASE a = "perplexity" -> PerplexityResults(resp, max_results)
      [] a = "tavily" -> TavilyResults(resp, max_results)
      [] a = "google_factcheck" -> GoogleResults(resp, max_results)
      [] a = "serpapi" -> SerpResults(resp, max_results)

\* a search() whose credential guard is missing
HasCredential_NoGuard(a, key, client) == TRUE

\* the guard at the top of search(): `if not self.api_key` (`if not
\* self.client` for Tavily)
HasCredential(a, key, client) == IF a = "tavily" THEN client ELSE key[a]

\* the try/except of search(): any exception in the body gives []
TryBody(a, resp, max_results) ==
    IF resp.kind # "ok"
    THEN Raise("Exception")
    ELSE LET rs == BuildResults(a, resp, max_results)
         IN IF \A i \in 1..Len(rs) : SearchResultValid(rs[i])
            THEN Ok(rs)
            ELSE Raise("ValidationError")

\* a search() without the `except Exception` clause
Search_NoExcept(a, cred, resp, max_results) ==
    IF ~cred
    THEN [raised |-> "none", value |-> <<>>, net |-> FALSE]
    ELSE LET body == TryBody(a, resp, max_results)
         IN [raised |-> body.raised,
             value |-> IF body.raised = "none" THEN body.value ELSE NoValue,
             net |-> TRUE]

\* <adapter>.search(query, max_results): outcome and whether the provider
\* was contacted
Search(a, cred, resp, max_results) ==
    IF ~cred
    THEN [raised |-> "none", value |-> <<>>, net |-> FALSE]
    ELSE LET body == TryBody(a, resp, max_results)
         IN [raised |-> "none",
             value |-> IF body.raised = "none" THEN body.value ELSE <<>>,
             net |-> TRUE]

(***************************************************************************)
(* llm/gateway.py: LLMGateway.  The model's answer to one request:         *)
(*   kind  : "api_error" (the HTTP call fails), "null_content" (the        *)
(*           message's content is null), "non_json" (the text does not     *)
(*           parse), "json" (the text parses to body)                      *)
(*   tokens: usage.total_tokens of the response                            *)
(***************************************************************************)

\* generate(): the outcome and the increments of the usage counters; the
\* counters are updated before LLMResponse(content=...) is built, which
\* rejects a null content
Generate(resp) ==
    IF resp.kind = "api_error"
    THEN [raised |-> "Exception", value |-> NoValue, calls |-> 0, tokens |-> 0]
    ELSE IF resp.kind = "null_content"
    THEN [raised |-> "Exception", value |-> NoValue, calls |-> 1, tokens |-> resp.tokens]
    ELSE [raised |-> "none", value |-> resp, calls |-> 1, tokens |-> resp.tokens]

\* generate_json(): generate(), then json.loads of the content
GenerateJson(resp) ==
    LET g == Generate(resp)
    IN IF g.raised # "none" THEN g
       ELSE IF resp.kind = "non_json"
            THEN [g EXCEPT !.raised = "Exception", !.value = NoValue]
            ELSE [g EXCEPT !.value = resp.body]

(***************************************************************************)
(* JSON values the model can put in a field.                               *)
(***************************************************************************)
Num(n) == [t |-> "num", n |-> n]
NumStr(n) == [t |-> "numstr", n |-> n]
NonNumStr == [t |-> "str", n |-> 0]
JNull == [t |-> "null", n |-> 0]
JAbsent == [t |-> "absent", n |-> 0]

\* dict.get(key, default)
Get(v, default) == IF v = Absent THEN default ELSE v
GetJ(v, default) == IF v.t = "absent" THEN default ELSE v

\* float(x)
PyFloat(v) ==
    CASE v.t \in {"num", "numstr"} -> Ok(v.n)
      [] v.t = "str" -> Raise("ValueError")
      [] OTHER -> Raise("TypeError")

(***************************************************************************)
(* models/fact_check.py: Source and FactCheckResult construction.          *)
(***************************************************************************)
HighConfidence == 70
NoExcerpt == 0 - 1

\* Source(...): reliability_score has ge=0.0, le=1.0; the model declares no
\* api_source field, so that keyword is dropped
NewSource(title, url, excerpt, reliability_score, api_source) ==
    IF reliability_score >= 0 /\ reliability_score <= 100
    THEN Ok([title |-> title, url |-> url, excerpt |-> excerpt,
             reliability_score |-> reliability_score])
    ELSE Raise("ValidationError")

\* a FactCheckResult without the field validator
ValidateConfidence_Off(status, v) == TRUE

\* the field validator validate_confidence
ValidateConfidence(status, v) ==
    ~ (status = VerificationStatus["VERIFIED"] /\ v < HighConfidence)
    /\ ~ (status = VerificationStatus["INCORRECT"] /\ v < HighConfidence)

\* FactCheckResult(...)
NewFactCheckResult(claim, status, confidence, explanation, sources) ==
    IF /\ status \in StatusValues
       /\ confidence >= 0 /\ confidence <= 100
       /\ ValidateConfidence(status, confidence)
       /\ explanation # None
    THEN Ok([claim |-> claim, verification_status |-> status,
             confidence_score |-> confidence, explanation |-> explanation,
             sources |-> sources])
    ELSE Raise("ValidationError")

(***************************************************************************)
(* engines/multi_source_verifier.py: MultiSourceVerifier.                  *)
(***************************************************************************)
\* an aggregator that asks the web search before the conversational search
ProviderOrder_Swapped == <<"tavily", "perplexity", "google_factcheck", "serpapi">>

\* the order of the search() calls in _search_all_apis()
ProviderOrder == <<"perplexity", "tavily", "google_factcheck", "serpapi">>
DefaultMaxResults == 3
ReconcileDefaultConfidence == 50
ReconcileFallbackConfidence == 30
ExcerptLen == 200

\* the adapters the verifier searches: serpapi only `if self.serpapi`
Searched(a, serp) == a # "serpapi" \/ serp

\* _search_all_apis(): the adapters are searched one after the other
SearchAllApis(key, client, serp, resps) ==
    LET order == SelectSeq(ProviderOrder, LAMBDA a : Searched(a, serp))
        outs == [i \in 1..Len(order) |->
                    Search(order[i], HasCredential(order[i], key, client),
                           resps[order[i]], DefaultMaxResults)]
        bad == {i \in 1..Len(order) : outs[i].raised # "none"}
        upto == IF bad = {} THEN Len(order) ELSE CHOOSE i \in bad : \A j \in bad : i <= j
    IN [raised |-> IF bad = {} THEN "none" ELSE outs[upto].raised,
        value |-> IF bad = {} THEN Concat([i \in 1..upto |-> outs[i].value]) ELSE <<>>,
        trace |-> Concat([i \in 1..upto |->
                     <<"search:" \o order[i]>> \o
                     (IF outs[i].net THEN <<"net:" \o order[i]>> ELSE <<>>) \o
                     (IF outs[i].raised = "none" THEN <<"return:" \o order[i]>>
                      ELSE <<>>)])]

\* the list each adapter hands back to _search_all_apis(): perplexity_results,
\* tavily_results, google_results, serpapi_results (empty when not searched)
AdapterResults(key, client, serp, resps) ==
    [a \in Adapters |->
        IF Searched(a, serp)
        THEN Search(a, HasCredential(a, key, client), resps[a], DefaultMaxResults).value
        ELSE <<>>]

\* the body of the try block of _reconcile_results()
ReconcileBody(json) ==
    IF ~json.is_dict THEN Raise("AttributeError")
    ELSE
    LET status_str == Get(json.verification_status, "unverifiable")
        byValue == StatusByValue(status_str)
        status == IF byValue.raised = "none" THEN byValue
                  ELSE StatusAttr("UNVERIFIABLE")
        conf == PyFloat(GetJ(json.confidence_score, Num(ReconcileDefaultConfidence)))
        explanation == Get(json.explanation, "Unable to determine verification status")
    IN IF status.raised # "none" THEN Raise(status.raised)
       ELSE IF conf.raised # "none" THEN Raise(conf.raised)
       ELSE Ok([status |-> status.value,
                confidence |-> Max(0, Min(100, conf.value)),
                explanation |-> explanation])

\* a reconciler that lowers the confidence by the gateway's use so far
ReconcileResults_UsageAware(claim, search_results, resp) ==
    [raised |-> IF GenerateJson(resp).raised # "none" THEN "AttributeError"
                ELSE ReconcileBody(GenerateJson(resp).value).raised,
     value |-> IF GenerateJson(resp).raised # "none" THEN NoValue
               ELSE IF ReconcileBody(GenerateJson(resp).value).raised # "none"
               THEN NoValue
               ELSE [status |-> ReconcileBody(GenerateJson(resp).value).value.status,
                     confidence |->
                        Max(0, ReconcileBody(GenerateJson(resp).value).value.confidence
                                  - total_api_calls),
                     explanation |-> "text"],
     calls |-> GenerateJson(resp).calls, tokens |-> GenerateJson(resp).tokens,
     trace |-> <<"llm">>]

\* _reconcile_results(): try / except Exception, with the gateway's counters
ReconcileResults(claim, search_results, resp) ==
    LET g == GenerateJson(resp)
        body == IF g.raised # "none" THEN Raise(g.raised) ELSE ReconcileBody(g.value)
        fallback == StatusAttr("UNVERIFIABLE")
        out == IF body.raised = "none" THEN body
               ELSE IF fallback.raised # "none" THEN Raise(fallback.raised)
               ELSE Ok([status |-> fallback.value,
                        confidence |-> ReconcileFallbackConfidence,
                        explanation |-> "Error during reconciliation"])
    IN [raised |-> out.raised, value |-> out.value,
        calls |-> g.calls, tokens |-> g.tokens, trace |-> <<"llm">>]

\* _convert_to_sources()
ConvertToSources(search_results) ==
    LET one(r) == NewSource(r.title, r.url,
                            IF r.snippet > 0 THEN Min(r.snippet, ExcerptLen) ELSE NoExcerpt,
                            r.score, r.source_api)
    IN IF \A i \in 1..Len(search_results) : one(search_results[i]).raised = "none"
       THEN Ok([i \in 1..Len(search_results) |-> one(search_results[i]).value])
       ELSE Raise("ValidationError")

\* verify_claim(): the branch taken when no evidence was found
VerifyNoEvidence(claim, found) ==
    LET unverifiable == StatusAttr("UNVERIFIABLE")
        result == NewFactCheckResult(claim, unverifiable.value, 0,
                      "No sources found to verify this claim.", <<>>)
        base == [raised |-> unverifiable.raised, value |-> NoValue, calls |-> 0,
                 tokens |-> 0, trace |-> found.trace, evidence |-> found.value]
    IN IF unverifiable.raised # "none" THEN base
       ELSE [base EXCEPT !.raised = result.raised, !.value = result.value,
                         !.trace = @ \o <<"result">>]

\* a verify_claim() that builds the Source list before it reconciles
VerifyWithEvidence_ConvertFirst(claim, found, rec) ==
    [raised |-> IF rec.raised # "none" THEN rec.raised
                ELSE ConvertToSources(found.value).raised,
     value |-> NoValue, calls |-> rec.calls, tokens |-> rec.tokens,
     trace |-> found.trace \o <<"convert">> \o rec.trace,
     evidence |-> found.value]

\* verify_claim(): reconcile, convert the evidence, build the result
VerifyWithEvidence(claim, found, rec) ==
    LET srcs == ConvertToSources(found.value)
        result == NewFactCheckResult(claim, rec.value.status, rec.value.confidence,
                      rec.value.explanation, srcs.value)
        base == [raised |-> rec.raised, value |-> NoValue, calls |-> rec.calls,
                 tokens |-> rec.tokens, trace |-> found.trace \o rec.trace,
                 evidence |-> found.value]
    IN IF rec.raised # "none" THEN base
       ELSE IF srcs.raised # "none"
       THEN [base EXCEPT !.raised = srcs.raised, !.trace = @ \o <<"convert">>]
       ELSE [base EXCEPT !.raised = result.raised, !.value = result.value,
                         !.trace = @ \o <<"convert", "result">>]

\* verify_claim()
VerifyClaimOp(key, client, serp, claim, resps, llm) ==
    LET found == SearchAllApis(key, client, serp, resps)
    IN IF found.raised # "none"
       THEN [raised |-> found.raised, value |-> NoValue, calls |-> 0, tokens |-> 0,
             trace |-> found.trace, evidence |-> found.value]
       ELSE IF found.value = <<>>
       THEN VerifyNoEvidence(claim, found)
       ELSE VerifyWithEvidence(claim, found, ReconcileResults(claim, found.value, llm))

(***************************************************************************)
(* engines/fact_checker.py: FactCheckEngine (knowledge-base path).         *)
(***************************************************************************)
MinClaims == 3
VerifyDefaultConfidence == 50
VerifyFallbackConfidence == 30

\* str.lower() on the type strings the model can send
Lower(s) ==
    CASE s = "Date" -> "date"
      [] s = "STATISTIC" -> "statistic"
      [] OTHER -> s

Placeholder == [claim_text |-> "General discussion point from the episode",
                claim_type |-> "other", speaker |-> "Multiple"]

\* one iteration of the loop over claims_data
ParseClaimItem(item) ==
    LET claim_type_str == Get(item.claim_type, "other")
    IN IF claim_type_str = None THEN Raise("AttributeError")
       ELSE IF item.claim_text = None THEN Raise("ValidationError")
       ELSE Ok([claim_text |-> Get(item.claim_text, ""),
                claim_type |-> IF Lower(claim_type_str) \in ClaimType
                               THEN Lower(claim_type_str) ELSE "other",
                speaker |-> "Unknown"])

\* _identify_claims(): no try block, then the padding to three claims
IdentifyClaims(episode, resp) ==
    LET g == GenerateJson(resp)
        base == [raised |-> g.raised, value |-> NoValue,
                 calls |-> g.calls, tokens |-> g.tokens]
    IN IF g.raised # "none" THEN base
       ELSE IF ~g.value.is_dict THEN [base EXCEPT !.raised = "AttributeError"]
       ELSE LET data == g.value.claims
                parsed == [i \in 1..Len(data) |-> ParseClaimItem(data[i])]
                bad == {i \in 1..Len(data) : parsed[i].raised # "none"}
                claims == [i \in 1..Len(data) |-> parsed[i].value]
                padded == IF Len(claims) < MinClaims
                          THEN claims \o [i \in 1..(MinClaims - Len(claims)) |-> Placeholder]
                          ELSE claims
            IN IF bad # {}
               THEN [base EXCEPT !.raised = parsed[CHOOSE i \in bad : \A j \in bad : i <= j].raised]
               ELSE [base EXCEPT !.value = padded]

\* the try block of _verify_claim()
VerifyBody(claim, json) ==
    IF ~json.is_dict THEN Raise("AttributeError")
    ELSE
    LET status_str == Get(json.verification_status, "unable_to_verify")
        byValue == StatusByValue(status_str)
        status == IF byValue.raised = "none" THEN byValue
                  ELSE StatusAttr("UNABLE_TO_VERIFY")
        srcs == [i \in 1..Len(json.sources) |->
                    NewSource(<<"Unknown Source", 0>>, None, NoExcerpt,
                              json.sources[i], "")]
        conf == PyFloat(GetJ(json.confidence_score, Num(VerifyDefaultConfidence)))
    IN IF status.raised # "none" THEN Raise(status.raised)
       ELSE IF \E i \in 1..Len(srcs) : srcs[i].raised # "none" THEN Raise("ValidationError")
       ELSE IF conf.raised # "none" THEN Raise("ValidationError")
       ELSE NewFactCheckResult(claim, status.value, conf.value,
                               Get(json.explanation, "Unable to verify"),
                               [i \in 1..Len(srcs) |-> srcs[i].value])

\* _verify_claim() without its except clause: a failure leaves the method
VerifyClaimKB_NoExcept(claim, resp) ==
    LET g == GenerateJson(resp)
        body == IF g.raised # "none" THEN Raise(g.raised) ELSE VerifyBody(claim, g.value)
    IN [raised |-> body.raised, value |-> body.value,
        calls |-> g.calls, tokens |-> g.tokens]

\* _verify_claim(): try / except Exception
VerifyClaimKB(claim, resp) ==
    LET g == GenerateJson(resp)
        body == IF g.raised # "none" THEN Raise(g.raised) ELSE VerifyBody(claim, g.value)
        unable == StatusAttr("UNABLE_TO_VERIFY")
        out == IF body.raised = "none" THEN body
               ELSE IF unable.raised # "none" THEN Raise(unable.raised)
               ELSE NewFactCheckResult(claim, unable.value, VerifyFallbackConfidence,
                                       "Verification failed", <<>>)
    IN [raised |-> out.raised, value |-> out.value,
        calls |-> g.calls, tokens |-> g.tokens]

\* a count that leaves out the partially verified results
CountedAsVerified_OnlyVerified == {VerificationStatus["VERIFIED"]}

\* the statuses model_post_init counts as verified
CountedAsVerified ==
    {VerificationStatus["VERIFIED"], VerificationStatus["PARTIALLY_VERIFIED"]}

\* a model without model_post_init: the counts stay as supplied
ModelPostInit_Missing(self) == self

\* EpisodeFactChecks.model_post_init(): the three counts are set from the list
ModelPostInit(self) ==
    LET verified == {i \in 1..Len(self.fact_checks) :
                        self.fact_checks[i].verification_status \in CountedAsVerified}
    IN [self EXCEPT !.total_claims = Len(self.fact_checks),
                    !.verified_count = Cardinality(verified),
                    !.unverified_count = Len(self.fact_checks) - Cardinality(verified)]

\* EpisodeFactChecks(episode_id=, fact_checks=, total_claims=, verified_count=,
\* unverified_count=): the validator on fact_checks, the fields as supplied,
\* then model_post_init
EpisodeFactChecksInit(episode_id, fact_checks, total, verified, unverified) ==
    IF Len(fact_checks) < MinClaims THEN Raise("ValidationError")
    ELSE Ok(ModelPostInit([episode_id |-> episode_id, fact_checks |-> fact_checks,
                           total_claims |-> total, verified_count |-> verified,
                           unverified_count |-> unverified]))

\* EpisodeFactChecks(episode_id=, fact_checks=): the counts default to 0
DefaultCount == 0
NewEpisodeFactChecks(episode_id, fact_checks) ==
    EpisodeFactChecksInit(episode_id, fact_checks, DefaultCount, DefaultCount,
                          DefaultCount)

RECURSIVE SumSeq(_)
SumSeq(xs) == IF xs = <<>> THEN 0 ELSE Head(xs) + SumSeq(Tail(xs))

\* a loop that puts each new result in front of the earlier ones
VerifyEach_Prepend(claims, verifyResps) ==
    [i \in 1..Len(claims) |->
        VerifyClaimKB(claims[Len(claims) + 1 - i], verifyResps[Len(claims) + 1 - i])]

\* the loop of fact_check_episode(): `for claim in claims`, one _verify_claim
\* per claim, results appended in that order
VerifyEach(claims, verifyResps) ==
    [i \in 1..Len(claims) |-> VerifyClaimKB(claims[i], verifyResps[i])]

\* the number of loop iterations that ran: up to the first _verify_claim that
\* raised, or all of them
LoopRan(checks) ==
    LET bad == {i \in 1..Len(checks) : checks[i].raised # "none"}
    IN IF bad = {} THEN Len(checks) ELSE CHOOSE i \in bad : \A j \in bad : i <= j

\* fact_check_episode() after the loop: the exception of the iteration that
\* raised, or EpisodeFactChecks(episode_id=, fact_checks=)
EpisodeReport(episode, checks) ==
    IF \E i \in 1..Len(checks) : checks[i].raised # "none"
    THEN Raise(checks[LoopRan(checks)].raised)
    ELSE NewEpisodeFactChecks(episode, [i \in 1..Len(checks) |-> checks[i].value])

\* fact_check_episode() once _identify_claims has returned
VerifyAndReport(episode, ident, checks) ==
    [raised |-> EpisodeReport(episode, checks).raised,
     value |-> EpisodeReport(episode, checks).value,
     calls |-> ident.calls + SumSeq([i \in 1..LoopRan(checks) |-> checks[i].calls]),
     tokens |-> ident.tokens + SumSeq([i \in 1..LoopRan(checks) |-> checks[i].tokens]),
     claims |-> ident.value,
     trace |-> <<"_identify_claims">> \o [i \in 1..LoopRan(checks) |-> "_verify_claim"]]

\* fact_check_episode() when _identify_claims raised
IdentifyRaised(ident) ==
    [raised |-> ident.raised, value |-> NoValue, calls |-> ident.calls,
     tokens |-> ident.tokens, claims |-> <<>>, trace |-> <<"_identify_claims">>]

\* fact_check_episode(): identify, verify each claim in order, assemble
FactCheckEpisode(episode, identifyResp, verifyResps) ==
    LET ident == IdentifyClaims(episode, identifyResp)
    IN IF ident.raised # "none" THEN IdentifyRaised(ident)
       ELSE VerifyAndReport(episode, ident, VerifyEach(ident.value, verifyResps))

(***************************************************************************)
(* engines/parser.py: TranscriptParser.                                    *)
(*                                                                         *)
(* A file is what the parser can observe of it: whether it exists, its     *)
(* suffix, whether it can be read and decoded, the kind of its top-level   *)
(* JSON value, and for an object its fields.  A segment is the kind of one *)
(* entry of "transcript".                                                  *)
(***************************************************************************)
TranscriptParsingError == "TranscriptParsingError"

\* `field not in x` for a JSON value x of the given kind: a number, null or
\* boolean is not iterable; a string or list answers the membership test
NotIterable(kind) == kind \in {"number", "null", "bool"}

\* the loop over raw_data["transcript"]: the first segment that stops it
SegmentStops(seg) == seg # "valid_object" /\ seg # "invalid_object"
FirstStop(segments) ==
    LET bad == {i \in 1..Len(segments) : SegmentStops(segments[i])}
    IN IF bad = {} THEN 0 ELSE CHOOSE i \in bad : \A j \in bad : i <= j

\* _validate_and_parse(raw_data, source_file)
ValidateAndParse(file) ==
    IF NotIterable(file.top)
    THEN [raised |-> "TypeError", value |-> NoValue, parsed |-> 0]
    ELSE IF file.top # "object" /\ file.fields_missing
    THEN [raised |-> TranscriptParsingError, value |-> NoValue, parsed |-> 0]
    ELSE IF file.top # "object"
    THEN [raised |-> "AttributeError", value |-> NoValue, parsed |-> 0]
    ELSE IF file.fields_missing \/ ~file.transcript_is_list \/ file.segments = <<>>
    THEN [raised |-> TranscriptParsingError, value |-> NoValue, parsed |-> 0]
    ELSE IF FirstStop(file.segments) # 0
    THEN [raised |-> IF NotIterable(file.segments[FirstStop(file.segments)])
                     THEN "TypeError" ELSE TranscriptParsingError,
          value |-> NoValue, parsed |-> 0]
    ELSE IF ~file.fields_valid
            \/ \E i \in 1..Len(file.segments) : file.segments[i] # "valid_object"
    THEN [raised |-> TranscriptParsingError, value |-> NoValue, parsed |-> 0]
    ELSE [raised |-> "none",
          value |-> [episode_id |-> file.path, segments |-> Len(file.segments)],
          parsed |-> 1]

\* parse_file(file_path)
ParseFile(file) ==
    IF ~file.exists \/ ~file.json_suffix \/ ~file.readable \/ ~file.json_valid
    THEN [raised |-> TranscriptParsingError, value |-> NoValue, parsed |-> 0]
    ELSE ValidateAndParse(file)

\* parse_multiple(): `self.errors = []` before the loop
ErrorsAtStart(old) == <<>>

\* the number of files parse_multiple() gets through: all of them, or up to
\* and including the first whose exception is not a TranscriptParsingError
FilesTried(outs) ==
    LET esc == {i \in 1..Len(outs) :
                   outs[i].raised \notin {"none", TranscriptParsingError}}
    IN IF esc = {} THEN Len(outs) ELSE CHOOSE i \in esc : \A j \in esc : i <= j

Escaped(outs) ==
    IF outs = <<>> \/ outs[FilesTried(outs)].raised \in {"none", TranscriptParsingError}
    THEN "none" ELSE outs[FilesTried(outs)].raised

RECURSIVE EpisodesOf(_)
EpisodesOf(outs) ==
    IF outs = <<>> THEN <<>>
    ELSE (IF Head(outs).raised = "none" THEN <<Head(outs).value>> ELSE <<>>)
         \o EpisodesOf(Tail(outs))

RECURSIVE ErrorsOf(_, _)
ErrorsOf(files, outs) ==
    IF outs = <<>> THEN <<>>
    ELSE (IF Head(outs).raised = TranscriptParsingError
          THEN << [file |-> Head(files).path, error |-> TranscriptParsingError] >>
          ELSE <<>>)
         \o ErrorsOf(Tail(files), Tail(outs))

\* parse_multiple() over the outcomes of its parse_file() calls
ParseMultipleFrom(files, outs, old_errors) ==
    [raised |-> Escaped(outs),
     value |-> IF Escaped(outs) = "none" THEN EpisodesOf(outs) ELSE NoValue,
     errors |-> ErrorsAtStart(old_errors) \o
                ErrorsOf(SubSeq(files, 1, FilesTried(outs)),
                         SubSeq(outs, 1, FilesTried(outs))),
     parsed |-> Len(EpisodesOf(SubSeq(outs, 1, FilesTried(outs)))),
     trace |-> [i \in 1..FilesTried(outs) |-> files[i].path]]

\* parse_multiple(file_paths)
ParseMultiple(files, old_errors) ==
    ParseMultipleFrom(files, [i \in 1..Len(files) |-> ParseFile(files[i])], old_errors)

(***************************************************************************)
(* The inputs of the exploration: what the providers and the model answer. *)
(***************************************************************************)
Claims == {[claim_text |-> "NASA launches in 2026", claim_type |-> "date",
            speaker |-> "Host"]}
Episodes == {"ep1"}
UsageTokens == 1

JsonBody(s, c, e, srcs, cl) ==
    [is_dict |-> TRUE, verification_status |-> s, confidence_score |-> c,
     explanation |-> e, sources |-> srcs, claims |-> cl]
NonDictBody == [JsonBody(Absent, JAbsent, Absent, <<>>, <<>>) EXCEPT !.is_dict = FALSE]

ApiError == [kind |-> "api_error", tokens |-> 0, body |-> NonDictBody]
NonJson == [kind |-> "non_json", tokens |-> UsageTokens, body |-> NonDictBody]
Json(body) == [kind |-> "json", tokens |-> UsageTokens, body |-> body]

StatusStrings == {"verified", "partially_verified", "incorrect",
                  "possibly_inaccurate", "unverifiable", "maybe", Absent}
Confidences == {Num(0 - 20), Num(30), Num(70), Num(170), NonNumStr, JAbsent}
Explanations == {"text", "", Absent, None}

\* answers to a reconciliation or verification prompt
JudgeResponses ==
    {ApiError, NonJson, Json(NonDictBody)} \cup
    {Json(JsonBody(s, c, e, <<>>, <<>>)) :
        s \in StatusStrings, c \in Confidences, e \in Explanations}

\* answers of the providers inside verify_claim: a failure, no result, one result
GoodItem == [url |-> "u1", score |-> 60, review |-> TRUE]
VerifyProviderResponses ==
    {[kind |-> "network_error", items |-> <<>>, content |-> 0],
     [kind |-> "ok", items |-> <<>>, content |-> 0],
     [kind |-> "ok", items |-> <<GoodItem>>, content |-> 600]}

ResponsesFor(key, client, serp) ==
    {f \in [Adapters -> VerifyProviderResponses \cup {NoResponse}] :
        \A a \in Adapters :
            (f[a] = NoResponse) <=> ~(Searched(a, serp) /\ HasCredential(a, key, client))}

EvidenceLists ==
    {<<>>,
     << [title |-> <<"Result", 0>>, url |-> "u1", snippet |-> 150, score |-> 60,
         source_api |-> "tavily"] >>}

(***************************************************************************)
(* State.  api_key, tavily_client: the adapters' fields; serpapi: whether  *)
(* the verifier holds a SerpAPI client; total_api_calls, total_tokens_used:*)
(* the gateway's counters; episodes_parsed, errors: the transcript         *)
(* parser's fields; pc, call, ret, trace: the caller's position, the call  *)
(* in progress, its outcome and the external calls it made.                *)
(***************************************************************************)
NoCall == [name |-> "none"]

Init ==
    /\ \E ctor \in [Adapters -> BOOLEAN], env \in [Adapters -> BOOLEAN],
          installed \in BOOLEAN :
          /\ api_key = [a \in Adapters |-> ctor[a] \/ env[a]]
          /\ tavily_client = ((ctor["tavily"] \/ env["tavily"]) /\ installed)
          /\ serpapi = ctor["serpapi"]
    /\ total_api_calls = 0
    /\ total_tokens_used = 0
    /\ episodes_parsed = 0
    /\ errors = <<>>
    /\ pc = "ready"
    /\ call = NoCall
    /\ ret = Raise("none")
    /\ trace = <<>>

\* the gateway's counters after an operation that made `out.calls` successful
\* generate() calls
Charge(out) ==
    /\ total_api_calls' = total_api_calls + out.calls
    /\ total_tokens_used' = total_tokens_used + out.tokens

\* <adapter>.search(query, max_results)
SearchCall ==
    /\ pc = "ready"
    /\ \E a \in Adapters, resp \in ProviderResponses, n \in 0..MaxResultsArg :
          \E out \in {Search(a, HasCredential(a, api_key, tavily_client), resp, n)} :
             /\ call' = [name |-> "search", adapter |-> a, response |-> resp,
                         max_results |-> n]
             /\ ret' = [raised |-> out.raised, value |-> out.value]
             /\ trace' = IF out.net THEN <<"net:" \o a>> ELSE <<>>
    /\ pc' = "returned"
    /\ UNCHANGED <<config, stats, parser>>

\* MultiSourceVerifier.verify_claim(claim)
VerifyClaimCall ==
    /\ pc = "ready"
    /\ total_api_calls < MaxApiCalls
    /\ \E claim \in Claims, resps \in ResponsesFor(api_key, tavily_client, serpapi),
          llm \in JudgeResponses :
          \E out \in {VerifyClaimOp(api_key, tavily_client, serpapi, claim, resps, llm)} :
             /\ Charge(out)
             /\ call' = [name |-> "verify_claim", claim |-> claim, llm |-> llm,
                         evidence |-> out.evidence,
                         calls_before |-> total_api_calls]
             /\ ret' = [raised |-> out.raised, value |-> out.value]
             /\ trace' = out.trace
    /\ pc' = "returned"
    /\ UNCHANGED <<config, parser>>

\* MultiSourceVerifier._reconcile_results(claim, search_results)
ReconcileCall ==
    /\ pc = "ready"
    /\ total_api_calls < MaxApiCalls
    /\ \E claim \in Claims, ev \in EvidenceLists, llm \in JudgeResponses :
          \E out \in {ReconcileResults(claim, ev, llm)} :
             /\ Charge(out)
             /\ call' = [name |-> "_reconcile_results", claim |-> claim, llm |-> llm,
                         evidence |-> ev, calls_before |-> total_api_calls]
             /\ ret' = [raised |-> out.raised, value |-> out.value]
             /\ trace' = out.trace
    /\ pc' = "returned"
    /\ UNCHANGED <<config, parser>>

\* _reconcile_results(claim, search_results) called a second time with the
\* same claim and evidence, the model answering as it did the first time
ReconcileAgainCall ==
    /\ pc = "returned" /\ call.name = "_reconcile_results"
    /\ \E out \in {ReconcileResults(call.claim, call.evidence, call.llm)} :
          /\ Charge(out)
          /\ call' = [name |-> "_reconcile_results again", claim |-> call.claim,
                      llm |-> call.llm, evidence |-> call.evidence,
                      calls_before |-> call.calls_before, first |-> ret]
          /\ ret' = [raised |-> out.raised, value |-> out.value]
          /\ trace' = trace \o out.trace
    /\ pc' = "returned"
    /\ UNCHANGED <<config, parser>>

\* the caller takes the returned value or the exception and goes on
Return ==
    /\ pc = "returned"
    /\ pc' = "ready"
    /\ call' = NoCall
    /\ ret' = Raise("none")
    /\ trace' = <<>>
    /\ UNCHANGED <<config, stats, parser>>

NextSearch == SearchCall \/ Return
SpecSearch == Init /\ [][NextSearch]_vars

\* answers of the providers to the aggregator: a failure, no result, one
\* result, two results, a result with a score outside [0, 1]
GatherProviderResponses ==
    VerifyProviderResponses \cup
    {[kind |-> "ok", items |-> <<GoodItem, [GoodItem EXCEPT !.url = None]>>,
      content |-> 0],
     [kind |-> "ok", items |-> <<[GoodItem EXCEPT !.score = 150]>>, content |-> 0]}

GatherResponsesFor(key, client, serp) ==
    {f \in [Adapters -> GatherProviderResponses \cup {NoResponse}] :
        \A a \in Adapters :
            (f[a] = NoResponse) <=> ~(Searched(a, serp) /\ HasCredential(a, key, client))}

\* MultiSourceVerifier._search_all_apis(query)
SearchAllApisCall ==
    /\ pc = "ready"
    /\ \E resps \in GatherResponsesFor(api_key, tavily_client, serpapi) :
          \E out \in {SearchAllApis(api_key, tavily_client, serpapi, resps)} :
             /\ call' = [name |-> "_search_all_apis", responses |-> resps,
                         returned |-> AdapterResults(api_key, tavily_client,
                                                     serpapi, resps)]
             /\ ret' = [raised |-> out.raised, value |-> out.value]
             /\ trace' = out.trace
    /\ pc' = "returned"
    /\ UNCHANGED <<config, stats, parser>>

NextGather == SearchAllApisCall \/ Return
SpecGather == Init /\ [][NextGather]_vars

NextVerify == VerifyClaimCall \/ ReconcileCall \/ ReconcileAgainCall \/ Return
SpecVerify == Init /\ [][NextVerify]_vars

(***************************************************************************)
(* The knowledge-base engine's operations.                                 *)
(***************************************************************************)
\* claim items the model can list
ClaimItems ==
    {[claim_type |-> t, claim_text |-> "a"] :
        t \in {"statistic", "Date", "bogus", Absent, None}}
    \cup {[claim_type |-> "other", claim_text |-> None]}
EpisodeItems == {[claim_type |-> "statistic", claim_text |-> "a"],
                 [claim_type |-> "bogus", claim_text |-> "b"]}

ListsOf(S, n) == UNION {[1..k -> S] : k \in 0..n}

IdentifyResponses(items) ==
    {ApiError, NonJson, Json(NonDictBody)} \cup
    {Json(JsonBody(Absent, JAbsent, Absent, <<>>, cl)) : cl \in ListsOf(items, MaxClaimItems)}

\* answers to a knowledge-base verification prompt, with a sources list
KBResponses ==
    JudgeResponses \cup
    {Json(JsonBody(s, c, "text", <<r>>, <<>>)) :
        s \in {"verified", "maybe"}, c \in {Num(30), Num(70)}, r \in {50, 150}}

EpisodeVerifyResponses ==
    {ApiError,
     Json(JsonBody("verified", Num(70), "text", <<>>, <<>>)),
     Json(JsonBody("verified", Num(30), "text", <<>>, <<>>))}

\* FactCheckEngine._identify_claims(episode)
IdentifyCall ==
    /\ pc = "ready"
    /\ total_api_calls < MaxApiCalls
    /\ \E episode \in Episodes, resp \in IdentifyResponses(ClaimItems) :
          \E out \in {IdentifyClaims(episode, resp)} :
             /\ Charge(out)
             /\ call' = [name |-> "_identify_claims", episode |-> episode, llm |-> resp,
                         calls_before |-> total_api_calls]
             /\ ret' = [raised |-> out.raised, value |-> out.value]
             /\ trace' = <<"llm">>
    /\ pc' = "returned"
    /\ UNCHANGED <<config, parser>>

\* FactCheckEngine._verify_claim(claim)
VerifyKBCall ==
    /\ pc = "ready"
    /\ total_api_calls < MaxApiCalls
    /\ \E claim \in Claims, resp \in KBResponses :
          \E out \in {VerifyClaimKB(claim, resp)} :
             /\ Charge(out)
             /\ call' = [name |-> "_verify_claim", claim |-> claim, llm |-> resp,
                         calls_before |-> total_api_calls]
             /\ ret' = [raised |-> out.raised, value |-> out.value]
             /\ trace' = <<"llm">>
    /\ pc' = "returned"
    /\ UNCHANGED <<config, parser>>

\* FactCheckEngine.fact_check_episode(episode)
FactCheckEpisodeCall ==
    /\ pc = "ready"
    /\ total_api_calls < MaxApiCalls
    /\ \E episode \in Episodes, idr \in IdentifyResponses(EpisodeItems) :
          \E ident \in {IdentifyClaims(episode, idr)} :
          \E n \in {IF ident.raised = "none" THEN Len(ident.value) ELSE 0} :
          \E vrs \in [1..n -> EpisodeVerifyResponses] :
          \E out \in {FactCheckEpisode(episode, idr, vrs)} :
             /\ Charge(out)
             /\ call' = [name |-> "fact_check_episode", episode |-> episode,
                         identify |-> idr, verify |-> vrs, claims |-> out.claims,
                         calls_before |-> total_api_calls]
             /\ ret' = [raised |-> out.raised, value |-> out.value]
             /\ trace' = out.trace
    /\ pc' = "returned"
    /\ UNCHANGED <<config, parser>>

NextEpisode == FactCheckEpisodeCall \/ IdentifyCall \/ VerifyKBCall \/ Return
SpecEpisode == Init /\ [][NextEpisode]_vars

\* results a caller can hand to EpisodeFactChecks(...), and counts it can supply
ResultInputs ==
    {[claim |-> c, verification_status |-> s, confidence_score |-> 80,
      explanation |-> "text", sources |-> <<>>] :
        c \in Claims, s \in {"verified", "partially_verified", "incorrect"}}
SuppliedCounts == {0, 7}

\* EpisodeFactChecks(episode_id=, fact_checks=, total_claims=, verified_count=,
\* unverified_count=)
EpisodeFactChecksCall ==
    /\ pc = "ready"
    /\ \E episode \in Episodes, checks \in ListsOf(ResultInputs, MaxChecks),
          t \in SuppliedCounts, v \in SuppliedCounts, u \in SuppliedCounts :
          \E out \in {EpisodeFactChecksInit(episode, checks, t, v, u)} :
             /\ call' = [name |-> "EpisodeFactChecks", fact_checks |-> checks,
                         total_claims |-> t, verified_count |-> v,
                         unverified_count |-> u]
             /\ ret' = out
             /\ trace' = <<>>
    /\ pc' = "returned"
    /\ UNCHANGED <<config, stats, parser>>

NextReport == EpisodeFactChecksCall \/ Return
SpecReport == Init /\ [][NextReport]_vars

(***************************************************************************)
(* The transcript parser's operations.                                     *)
(***************************************************************************)
MaxParsed == 2
MaxFiles == 2

\* a well-formed transcript file with one segment
GoodFile(path) ==
    [path |-> path, exists |-> TRUE, json_suffix |-> TRUE, readable |-> TRUE,
     json_valid |-> TRUE, top |-> "object", fields_missing |-> FALSE,
     transcript_is_list |-> TRUE, segments |-> <<"valid_object">>,
     fields_valid |-> TRUE]

\* what a segment of the transcript list can be
SegmentKinds == {"valid_object", "invalid_object", "object_missing_fields",
                 "string", "number", "null"}

\* the files parse_file() is tried on
Files ==
    {GoodFile("a.json"),
     [GoodFile("missing.json") EXCEPT !.exists = FALSE],
     [GoodFile("a.txt") EXCEPT !.json_suffix = FALSE],
     [GoodFile("dir.json") EXCEPT !.readable = FALSE],
     [GoodFile("bad.json") EXCEPT !.json_valid = FALSE],
     [GoodFile("nofields.json") EXCEPT !.fields_missing = TRUE],
     [GoodFile("notlist.json") EXCEPT !.transcript_is_list = FALSE],
     [GoodFile("empty.json") EXCEPT !.segments = <<>>],
     [GoodFile("blankid.json") EXCEPT !.fields_valid = FALSE]}
    \cup {[GoodFile("top.json") EXCEPT !.top = k, !.fields_missing = m] :
             k \in {"number", "null", "string", "list"}, m \in BOOLEAN}
    \cup {[GoodFile("segs.json") EXCEPT !.segments = <<"valid_object", k>>] :
             k \in SegmentKinds}

\* the files parse_multiple() is tried on
BatchFiles ==
    {GoodFile("a.json"), GoodFile("b.json"),
     [GoodFile("missing.json") EXCEPT !.exists = FALSE],
     [GoodFile("blankid.json") EXCEPT !.fields_valid = FALSE],
     [GoodFile("top.json") EXCEPT !.top = "number"]}

\* TranscriptParser.parse_file(file_path)
ParseFileCall ==
    /\ pc = "ready"
    /\ episodes_parsed < MaxParsed
    /\ \E file \in Files :
          \E out \in {ParseFile(file)} :
             /\ episodes_parsed' = episodes_parsed + out.parsed
             /\ call' = [name |-> "parse_file", file |-> file,
                         parsed_before |-> episodes_parsed]
             /\ ret' = [raised |-> out.raised, value |-> out.value]
             /\ trace' = <<>>
    /\ pc' = "returned"
    /\ UNCHANGED <<config, stats, errors>>

\* TranscriptParser.parse_multiple(file_paths)
ParseMultipleCall ==
    /\ pc = "ready"
    /\ episodes_parsed < MaxParsed
    /\ \E files \in ListsOf(BatchFiles, MaxFiles) :
          \E out \in {ParseMultiple(files, errors)} :
             /\ episodes_parsed' = episodes_parsed + out.parsed
             /\ errors' = out.errors
             /\ call' = [name |-> "parse_multiple", files |-> files,
                         parsed_before |-> episodes_parsed,
                         errors_before |-> errors]
             /\ ret' = [raised |-> out.raised, value |-> out.value]
             /\ trace' = out.trace
    /\ pc' = "returned"
    /\ UNCHANGED <<config, stats>>

NextParser == ParseFileCall \/ ParseMultipleCall \/ Return
SpecParser == Init /\ [][NextParser]_vars

\* the operations that build FactCheckResult objects
(***************************************************************************)
(* engines/extractor.py: ExtractionEngine._extract_quotes.  An episode is  *)
(* what the parser returns: its id and the number of transcript segments.  *)
(* An entry of the answer's "quotes" list is "ok", "bad_score" (an         *)
(* engagement_score outside [0, 1]) or "not_dict".                         *)
(***************************************************************************)
MinQuotes == 3
MaxQuotes == 10
DefaultEngagement == 100
FallbackEngagement == 50
MaxSegments == 4
MaxQuoteItems == 11

\* Quote(timestamp=, speaker=, text=, context=, engagement_score=) from one
\* entry of quotes_data
QuoteFromItem(item, i) ==
    CASE item = "not_dict" -> Raise("AttributeError")
      [] item = "bad_score" -> Raise("ValidationError")
      [] OTHER -> Ok([origin |-> "model", index |-> i,
                      engagement_score |-> DefaultEngagement])

\* Quote(timestamp=seg.timestamp, speaker=, text=, engagement_score=0.5)
QuoteFromSegment(i) ==
    [origin |-> "transcript", index |-> i, engagement_score |-> FallbackEngagement]

\* the fallback loop over episode.transcript[:3]
RECURSIVE FillFromTranscript(_, _, _)
FillFromTranscript(quotes, segs, i) ==
    IF i > Len(segs) \/ Len(quotes) >= MinQuotes THEN quotes
    ELSE FillFromTranscript(Append(quotes, QuoteFromSegment(segs[i])), segs, i + 1)

\* the statements after the loop over quotes_data
QuotesReturned(episode, quotes) ==
    LET segs == SliceTo([i \in 1..episode.segments |-> i], MinQuotes)
        filled == IF Len(quotes) < MinQuotes
                  THEN FillFromTranscript(quotes, segs, 1) ELSE quotes
    IN SliceTo(filled, MaxQuotes)

\* the first entry of quotes_data whose Quote(...) raises, 0 if none does
FirstBadQuote(items) ==
    LET bad == {i \in 1..Len(items) : QuoteFromItem(items[i], i).raised # "none"}
    IN IF bad = {} THEN 0 ELSE CHOOSE i \in bad : \A j \in bad : i <= j

\* the outcome of _extract_quotes() after generate_json() returned `json`
QuotesFromJson(episode, json) ==
    IF ~json.is_dict THEN Raise("AttributeError")
    ELSE IF FirstBadQuote(json.quotes) # 0
    THEN Raise(QuoteFromItem(json.quotes[FirstBadQuote(json.quotes)], 0).raised)
    ELSE Ok(QuotesReturned(episode,
               [i \in 1..Len(json.quotes) |-> QuoteFromItem(json.quotes[i], i).value]))

\* _extract_quotes(episode): no try block
ExtractQuotes(episode, resp) ==
    [raised |-> IF GenerateJson(resp).raised # "none" THEN GenerateJson(resp).raised
                ELSE QuotesFromJson(episode, GenerateJson(resp).value).raised,
     value |-> IF GenerateJson(resp).raised # "none" THEN NoValue
               ELSE QuotesFromJson(episode, GenerateJson(resp).value).value,
     calls |-> GenerateJson(resp).calls,
     tokens |-> GenerateJson(resp).tokens]

\* KeyNotes.validate_quote_count
ValidateQuoteCount(v) == Len(v) >= MinQuotes /\ Len(v) <= MaxQuotes

\* the episodes the parser accepts: at least one segment
ParsedEpisodes == {[episode_id |-> "ep1", segments |-> n] : n \in 1..MaxSegments}

QuotesBody(items) == [is_dict |-> TRUE, quotes |-> items]
\* answers to the quote-extraction prompt
QuoteResponses ==
    {ApiError, NonJson, Json([is_dict |-> FALSE, quotes |-> <<>>])} \cup
    {Json(QuotesBody([i \in 1..k |-> "ok"])) : k \in 0..MaxQuoteItems} \cup
    {Json(QuotesBody(<<"ok", b>>)) : b \in {"bad_score", "not_dict"}}

\* ExtractionEngine._extract_quotes(episode)
ExtractQuotesCall ==
    /\ pc = "ready"
    /\ total_api_calls < MaxApiCalls
    /\ \E episode \in ParsedEpisodes, resp \in QuoteResponses :
          \E out \in {ExtractQuotes(episode, resp)} :
             /\ Charge(out)
             /\ call' = [name |-> "_extract_quotes", episode |-> episode, llm |-> resp,
                         calls_before |-> total_api_calls]
             /\ ret' = [raised |-> out.raised, value |-> out.value]
             /\ trace' = <<"llm">>
    /\ pc' = "returned"
    /\ UNCHANGED <<config, parser>>

NextExtract == ExtractQuotesCall \/ Return
SpecExtract == Init /\ [][NextExtract]_vars

(***************************************************************************)
(* cli/main.py: the process command.  What happens to one episode is a     *)
(* record: stage is "parse_raises" (parse_file raises), "pipeline_raises"  *)
(* (a later step of process_episode raises), "save_raises" (save_report    *)
(* raises) or "ok"; calls is the number of generate() calls that returned. *)
(* aggregate is the outcome of the aggregate-report block, which runs when *)
(* more than one report was collected.                                     *)
(***************************************************************************)
MaxEpisodes == 3

Parsed(run) == run.stage # "parse_raises"
ProcessReturned(run) == run.stage \in {"save_raises", "ok"}

\* the body of the for loop: the calls made for each path, in order
RECURSIVE LoopTrace(_, _)
LoopTrace(runs, i) ==
    IF i > Len(runs) THEN <<>>
    ELSE << <<"process_episode", i>> >>
         \o (IF ProcessReturned(runs[i]) THEN << <<"save_report", i>> >> ELSE <<>>)
         \o LoopTrace(runs, i + 1)

\* reports after the loop: reports.append(report) follows save_report
RECURSIVE ReportsAfterLoop(_, _)
ReportsAfterLoop(runs, i) ==
    IF i > Len(runs) THEN <<>>
    ELSE (IF runs[i].stage = "ok" THEN <<i>> ELSE <<>>) \o ReportsAfterLoop(runs, i + 1)

\* `if len(reports) > 1:` and the block under it, outside any try
AggregateRuns(runs) == Len(ReportsAfterLoop(runs, 1)) > 1
AggregateRaises(runs, aggregate) == AggregateRuns(runs) /\ aggregate = "raises"

RECURSIVE CallsMade(_)
CallsMade(runs) == IF runs = <<>> THEN 0 ELSE Head(runs).calls + CallsMade(Tail(runs))

\* process(...) from `reports = []` to orchestrator.finalize()
Process(runs, aggregate) ==
    [raised |-> IF AggregateRaises(runs, aggregate) THEN "OSError" ELSE "none",
     value |-> NoValue,
     reports |-> ReportsAfterLoop(runs, 1),
     trace |-> LoopTrace(runs, 1)
               \o (IF AggregateRuns(runs) THEN << <<"aggregate", 0>> >> ELSE <<>>)
               \o (IF AggregateRaises(runs, aggregate) THEN <<>>
                                                        ELSE << <<"finalize", 0>> >>),
     calls |-> CallsMade(runs),
     tokens |-> CallsMade(runs) * UsageTokens,
     parsed |-> Cardinality({i \in 1..Len(runs) : Parsed(runs[i])})]

\* what can happen to one episode of episodes_to_process
EpisodeRuns ==
    {[stage |-> "parse_raises", calls |-> 0],
     [stage |-> "pipeline_raises", calls |-> 0],
     [stage |-> "pipeline_raises", calls |-> 1],
     [stage |-> "save_raises", calls |-> 1],
     [stage |-> "ok", calls |-> 1]}
\* episodes_to_process is not empty: the command exits before the loop otherwise
RunLists == UNION {[1..n -> EpisodeRuns] : n \in 1..MaxEpisodes}

\* the CLI command process
ProcessCall ==
    /\ pc = "ready"
    /\ total_api_calls < MaxApiCalls
    /\ episodes_parsed < MaxParsed
    /\ \E runs \in RunLists, aggregate \in {"ok", "raises"} :
          \E out \in {Process(runs, aggregate)} :
             /\ Charge(out)
             /\ episodes_parsed' = episodes_parsed + out.parsed
             /\ call' = [name |-> "process", runs |-> runs, aggregate |-> aggregate,
                         reports |-> out.reports]
             /\ ret' = [raised |-> out.raised, value |-> out.value]
             /\ trace' = out.trace
    /\ pc' = "returned"
    /\ UNCHANGED <<config, errors>>

NextProcess == ProcessCall \/ Return
SpecProcess == Init /\ [][NextProcess]_vars

(***************************************************************************)
(* llm/gateway.py: the gateway's own operations.                           *)
(***************************************************************************)
NullContent == [kind |-> "null_content", tokens |-> UsageTokens, body |-> NonDictBody]
\* an answer without a usage object: usage.get("total_tokens", 0)
NoUsage == [kind |-> "json", tokens |-> 0, body |-> NonDictBody]
GatewayResponses == {ApiError, NullContent, NonJson, Json(NonDictBody), NoUsage}

\* LLMGateway.generate(prompt)
GenerateCall ==
    /\ pc = "ready"
    /\ total_api_calls < MaxApiCalls
    /\ \E resp \in GatewayResponses :
          \E out \in {Generate(resp)} :
             /\ Charge(out)
             /\ call' = [name |-> "generate", llm |-> resp,
                         calls_before |-> total_api_calls,
                         tokens_before |-> total_tokens_used]
             /\ ret' = [raised |-> out.raised, value |-> out.value]
             /\ trace' = <<"llm">>
    /\ pc' = "returned"
    /\ UNCHANGED <<config, parser>>

\* LLMGateway.generate_json(prompt)
GenerateJsonCall ==
    /\ pc = "ready"
    /\ total_api_calls < MaxApiCalls
    /\ \E resp \in GatewayResponses :
          \E out \in {GenerateJson(resp)} :
             /\ Charge(out)
             /\ call' = [name |-> "generate_json", llm |-> resp,
                         calls_before |-> total_api_calls,
                         tokens_before |-> total_tokens_used]
             /\ ret' = [raised |-> out.raised, value |-> out.value]
             /\ trace' = <<"llm">>
    /\ pc' = "returned"
    /\ UNCHANGED <<config, parser>>

\* LLMGateway.reset_stats()
ResetStatsCall ==
    /\ pc = "ready"
    /\ total_api_calls' = 0
    /\ total_tokens_used' = 0
    /\ call' = [name |-> "reset_stats", calls_before |-> total_api_calls,
                tokens_before |-> total_tokens_used]
    /\ ret' = Ok(NoValue)
    /\ trace' = <<>>
    /\ pc' = "returned"
    /\ UNCHANGED <<config, parser>>

NextGateway == GenerateCall \/ GenerateJsonCall \/ ResetStatsCall \/ Return
SpecGateway == Init /\ [][NextGateway]_vars

NextResults == VerifyClaimCall \/ VerifyKBCall \/ FactCheckEpisodeCall \/ Return
SpecResults == Init /\ [][NextResults]_vars

Next ==
    \/ GenerateCall
    \/ GenerateJsonCall
    \/ ResetStatsCall
    \/ ProcessCall
    \/ ExtractQuotesCall
    \/ ParseFileCall
    \/ ParseMultipleCall
    \/ EpisodeFactChecksCall
    \/ SearchAllApisCall
    \/ SearchCall
    \/ VerifyClaimCall
    \/ ReconcileCall
    \/ ReconcileAgainCall
    \/ IdentifyCall
    \/ VerifyKBCall
    \/ FactCheckEpisodeCall
    \/ Return
Spec == Init /\ [][Next]_vars

(***************************************************************************)
(* Properties.                                                             *)
(***************************************************************************)
Returned(name) == pc = "returned" /\ call.name = name

NoCredentials ==
    /\ \A a \in Adapters : ~api_key[a]
    /\ ~tavily_client
    /\ ~serpapi

Clamp01(n) == IF n < 0 THEN 0 ELSE IF n > 100 THEN 100 ELSE n

\* C1: with no credential on any adapter, verify_claim returns a result with
\* status unverifiable, confidence 0.0 and no sources, and does not raise.
C1_FailOpenNoCredentials ==
    (Returned("verify_claim") /\ NoCredentials) =>
        /\ ret.raised = "none"
        /\ ret.value.verification_status = "unverifiable"
        /\ ret.value.confidence_score = 0
        /\ ret.value.sources = <<>>

\* C2: verify_claim never raises, whatever the providers and the model answer.
C2_VerifyNeverRaises ==
    Returned("verify_claim") => ret.raised = "none"

\* C3: a status string outside the enumeration is coerced by the reconciler
\* to unverifiable, and nothing is raised.
C3_UnknownStatusCoerced ==
    (/\ Returned("_reconcile_results")
     /\ call.llm.kind = "json"
     /\ call.llm.body.is_dict
     /\ call.llm.body.verification_status = "maybe") =>
        /\ ret.raised = "none"
        /\ ret.value.status = "unverifiable"

\* C4: on a failure of the reconciliation step with non-empty evidence (API
\* error, non-JSON answer, non-numeric confidence, unmapped status string)
\* _reconcile_results returns (unverifiable, 0.3, reconciliation failed).
ReconcileFailure(llm) ==
    \/ llm.kind \in {"api_error", "non_json"}
    \/ /\ llm.kind = "json"
       /\ llm.body.is_dict
       /\ \/ llm.body.confidence_score = NonNumStr
          \/ llm.body.verification_status = "maybe"

C4_ReconcilerFailSoft ==
    (/\ Returned("_reconcile_results")
     /\ call.evidence # <<>>
     /\ ReconcileFailure(call.llm)) =>
        /\ ret.raised = "none"
        /\ ret.value.status = "unverifiable"
        /\ ret.value.confidence = 30
        /\ ret.value.explanation = "Error during reconciliation"

\* C5: whatever number the model states as confidence, a result is stored and
\* its confidence is the stated number clamped to [0.0, 1.0].
C5_ConfidenceClamped ==
    (/\ Returned("verify_claim")
     /\ call.evidence # <<>>
     /\ call.llm.kind = "json"
     /\ call.llm.body.is_dict
     /\ call.llm.body.confidence_score.t = "num") =>
        /\ ret.raised = "none"
        /\ ret.value.confidence_score = Clamp01(call.llm.body.confidence_score.n)

\* C6: with an empty merged evidence set, verification yields unverifiable,
\* 0.0 and the "no sources" explanation, and the language model is not called.
C6_ZeroEvidenceNoModelCall ==
    (Returned("verify_claim") /\ call.evidence = <<>>) =>
        /\ ret.raised = "none"
        /\ ret.value.verification_status = "unverifiable"
        /\ ret.value.confidence_score = 0
        /\ ret.value.explanation = "No sources found to verify this claim."
        /\ \A i \in 1..Len(trace) : trace[i] # "llm"
        /\ total_api_calls = call.calls_before

\* C7: search never raises; with a missing credential, a network error, a
\* non-2xx status, a malformed payload or an out-of-range score in a result
\* it returns the empty list.
SearchFailure ==
    \/ ~HasCredential(call.adapter, api_key, tavily_client)
    \/ call.response.kind \in {"network_error", "http_error", "malformed"}
    \/ /\ call.adapter = "tavily"
       /\ \E i \in 1..Len(call.response.items) :
             call.response.items[i].score < 0 \/ call.response.items[i].score > 100

C7_SearchNeverThrows ==
    Returned("search") =>
        /\ ret.raised = "none"
        /\ SearchFailure => ret.value = <<>>

C7_Witness ==
    /\ Returned("search")
    /\ call.adapter = "tavily"
    /\ tavily_client
    /\ call.response.kind = "ok"
    /\ Len(call.response.items) = 2
    /\ call.response.items[1].score = 60
    /\ call.response.items[2].score = 150
    /\ ret.raised = "none"
    /\ ret.value = <<>>

\* C8: without a credential search is a no-op: it returns the empty list and
\* the provider is not contacted, for every query and every max_results.
C8_NoCredentialNoOp ==
    (Returned("search") /\ ~api_key[call.adapter]) =>
        /\ ret.raised = "none"
        /\ ret.value = <<>>
        /\ trace = <<>>

C8_Witness ==
    /\ Returned("search")
    /\ ~api_key[call.adapter]
    /\ call.response.kind = "ok"
    /\ call.response.items # <<>>
    /\ call.max_results = MaxResultsArg
    /\ ret.value = <<>>
    /\ trace = <<>>

\* C9: an episode for which the model identifies zero claims yields an empty
\* EpisodeFactChecks with all three counts 0, not an error.
C9_ZeroClaimsEmptyReport ==
    (/\ Returned("fact_check_episode")
     /\ call.identify.kind = "json"
     /\ call.identify.body.is_dict
     /\ call.identify.body.claims = <<>>) =>
        /\ ret.raised = "none"
        /\ ret.value.fact_checks = <<>>
        /\ ret.value.total_claims = 0
        /\ ret.value.verified_count = 0
        /\ ret.value.unverified_count = 0

\* C10: when the model call fails or its answer is not JSON, claim
\* identification returns the empty list and does not raise.
C10_IdentifyFailSoft ==
    (/\ Returned("_identify_claims")
     /\ call.llm.kind \in {"api_error", "non_json"}) =>
        /\ ret.raised = "none"
        /\ ret.value = <<>>

\* C11: _identify_claims returns exactly one claim per claim item of the
\* model's answer, in the same order, and no placeholder claim, for every
\* number of items including 0, 1 and 2.
ItemsParse(items) ==
    \A i \in 1..Len(items) : ParseClaimItem(items[i]).raised = "none"

C11_NoFabricatedClaims ==
    (/\ Returned("_identify_claims")
     /\ call.llm.kind = "json"
     /\ call.llm.body.is_dict
     /\ ItemsParse(call.llm.body.claims)) =>
        /\ ret.raised = "none"
        /\ Len(ret.value) = Len(call.llm.body.claims)
        /\ \A i \in 1..Len(ret.value) :
              /\ ret.value[i] # Placeholder
              /\ ret.value[i].claim_text = call.llm.body.claims[i].claim_text

\* C12: every episode report has one result per claim returned by
\* _identify_claims, and total_claims is the length of the result list; when
\* identification returned claims the report exists.
C12_NoClaimLost ==
    Returned("fact_check_episode") =>
        /\ call.claims # <<>> => ret.raised = "none"
        /\ ret.raised = "none" =>
              /\ Len(ret.value.fact_checks) = Len(call.claims)
              /\ ret.value.total_claims = Len(ret.value.fact_checks)

C12_Witness ==
    /\ Returned("fact_check_episode")
    /\ ret.raised = "none"
    /\ Len(call.identify.body.claims) = MaxClaimItems
    /\ \E i \in 1..Len(call.verify) : call.verify[i] = ApiError
    /\ Len(ret.value.fact_checks) = MaxClaimItems
    /\ ret.value.total_claims = MaxClaimItems

\* C13: whatever counts the caller supplies, an EpisodeFactChecks has
\* total_claims = len(fact_checks), verified_count = the number of results
\* with status verified or partially_verified, unverified_count = the rest,
\* so the two counts add up to total_claims.
IsReport ==
    /\ pc = "returned"
    /\ call.name \in {"EpisodeFactChecks", "fact_check_episode"}
    /\ ret.raised = "none"

C13_CountsRecomputed ==
    IsReport =>
        LET fc == ret.value.fact_checks
            good == {i \in 1..Len(fc) :
                        fc[i].verification_status \in {"verified", "partially_verified"}}
        IN /\ ret.value.total_claims = Len(fc)
           /\ ret.value.verified_count = Cardinality(good)
           /\ ret.value.unverified_count = Len(fc) - Cardinality(good)
           /\ ret.value.verified_count + ret.value.unverified_count
                 = ret.value.total_claims

C13_Witness ==
    /\ Returned("EpisodeFactChecks")
    /\ ret.raised = "none"
    /\ call.total_claims = 7
    /\ call.verified_count = 7
    /\ call.unverified_count = 0
    /\ Len(call.fact_checks) = MaxChecks
    /\ call.fact_checks[1].verification_status = "partially_verified"
    /\ call.fact_checks[2].verification_status = "incorrect"
    /\ ret.value.total_claims = MaxChecks
    /\ ret.value.verified_count < MaxChecks

\* C14: every FactCheckResult returned by verify_claim or _verify_claim, or
\* contained in the report of fact_check_episode, whose status is verified or
\* incorrect has confidence >= 0.7, whatever the model answered.
ConfidentEnough(r) ==
    r.verification_status \in {"verified", "incorrect"} =>
        r.confidence_score >= HighConfidence

C14_HighConfidenceStatuses ==
    /\ (pc = "returned" /\ call.name \in {"verify_claim", "_verify_claim"}
           /\ ret.raised = "none") => ConfidentEnough(ret.value)
    /\ (Returned("fact_check_episode") /\ ret.raised = "none") =>
           \A i \in 1..Len(ret.value.fact_checks) :
              ConfidentEnough(ret.value.fact_checks[i])

C14_Witness ==
    /\ Returned("verify_claim")
    /\ call.llm.kind = "json"
    /\ call.llm.body.verification_status = "incorrect"
    /\ call.llm.body.confidence_score = Num(70)
    /\ ret.raised = "none"
    /\ ret.value.verification_status = "incorrect"
    /\ ret.value.confidence_score = 70

\* C15: fact_check_episode calls _identify_claims once and first, then
\* _verify_claim once per identified claim, and the i-th result of the report
\* is the result for the i-th identified claim.
SaidVerified == Json(JsonBody("verified", Num(70), "text", <<>>, <<>>))

C15_IdentifyThenVerifyInOrder ==
    Returned("fact_check_episode") =>
        /\ Len(trace) >= 1
        /\ trace[1] = "_identify_claims"
        /\ \A i \in 2..Len(trace) : trace[i] = "_verify_claim"
        /\ ret.raised = "none" =>
              /\ Len(trace) = 1 + Len(call.claims)
              /\ Len(ret.value.fact_checks) = Len(call.claims)
              /\ \A i \in 1..Len(call.claims) :
                    /\ ret.value.fact_checks[i].claim = call.claims[i]
                    /\ (ret.value.fact_checks[i].verification_status = "verified")
                          <=> (call.verify[i] = SaidVerified)

C15_Witness ==
    /\ Returned("fact_check_episode")
    /\ ret.raised = "none"
    /\ Len(call.claims) = MaxClaimItems
    /\ call.claims[1] # call.claims[2]
    /\ call.claims[2] # call.claims[3]
    /\ call.verify[1] = SaidVerified
    /\ call.verify[2] = ApiError
    /\ Len(trace) = 1 + MaxClaimItems
    /\ ret.value.fact_checks[1].verification_status = "verified"
    /\ ret.value.fact_checks[2].verification_status = "unable_to_verify"

\* C16: the aggregator's provider searches overlap: some provider's search is
\* started before the search of a provider started earlier has returned.
Position(e) == CHOOSE i \in 1..Len(trace) : trace[i] = e
Occurs(e) == \E i \in 1..Len(trace) : trace[i] = e

SearchesOverlap ==
    \E a \in Adapters, b \in Adapters :
        /\ a # b
        /\ Occurs("search:" \o a)
        /\ Occurs("search:" \o b)
        /\ Position("search:" \o a) < Position("search:" \o b)
        /\ Occurs("return:" \o a) =>
              Position("search:" \o b) < Position("return:" \o a)

C16_ConcurrentSearches ==
    Returned("_search_all_apis") => SearchesOverlap

\* C17: the aggregator returns the concatenation, in the order conversational
\* search, web search, fact-check database, fallback, of the lists the
\* adapters returned; a failed, credential-less or unconfigured adapter
\* contributes the empty list; nothing is removed as a duplicate.
Contributes(a) ==
    /\ Searched(a, serpapi)
    /\ HasCredential(a, api_key, tavily_client)
    /\ call.responses[a].kind = "ok"

C17_ConcatenationInProviderOrder ==
    Returned("_search_all_apis") =>
        /\ ret.raised = "none"
        /\ ret.value = call.returned["perplexity"] \o call.returned["tavily"]
                          \o call.returned["google_factcheck"]
                          \o call.returned["serpapi"]
        /\ \A a \in Adapters : ~Contributes(a) => call.returned[a] = <<>>

C17_Witness ==
    /\ Returned("_search_all_apis")
    /\ call.responses["perplexity"].kind = "network_error"
    /\ ~api_key["serpapi"]
    /\ Len(call.returned["tavily"]) = 2
    /\ Len(call.returned["google_factcheck"]) = 1
    /\ Len(ret.value) = 3
    /\ ret.value[1].url = ret.value[3].url
    /\ ret.value[1].source_api = "tavily"
    /\ ret.value[3].source_api = "google_factcheck"

\* C18: a result built from non-empty evidence has one Source per evidence
\* item, in order, carrying the item's title, URL, snippet cut to 200
\* characters, relevance score as reliability score, and provider tag.
C18_SourcesMirrorEvidence ==
    (/\ Returned("verify_claim")
     /\ ret.raised = "none"
     /\ call.evidence # <<>>) =>
        /\ Len(ret.value.sources) = Len(call.evidence)
        /\ \A i \in 1..Len(call.evidence) :
              /\ ret.value.sources[i].title = call.evidence[i].title
              /\ ret.value.sources[i].url = call.evidence[i].url
              /\ ret.value.sources[i].excerpt = Min(call.evidence[i].snippet, ExcerptLen)
              /\ ret.value.sources[i].reliability_score = call.evidence[i].score
              /\ "api_source" \in DOMAIN ret.value.sources[i]
              /\ ret.value.sources[i].api_source = call.evidence[i].source_api

\* C19: every result produced by verification has a non-empty explanation,
\* also when the model's answer has no explanation or an empty one.
C19_ExplanationNonEmpty ==
    (/\ pc = "returned"
     /\ call.name \in {"verify_claim", "_verify_claim"}
     /\ ret.raised = "none") =>
        ret.value.explanation \notin {"", None}

\* C20: search(query, max_results = n) returns at most n items for every
\* adapter and provider answer, also when the provider sends more than n
\* results and when n = 0.
C20_AtMostMaxResults ==
    Returned("search") =>
        /\ ret.raised = "none"
        /\ Len(ret.value) <= call.max_results

C22_OnlyParsingErrors ==
    Returned("parse_file") => ret.raised \in {"none", TranscriptParsingError}

\* C23: parse_multiple goes through every path and stops at no failure: it
\* returns, episodes plus errors number the paths, the episodes are the
\* files that parse in input order, errors holds only this call's failures,
\* and episodes_parsed grew by the number of episodes returned.
C23_BatchNeverStops ==
    Returned("parse_multiple") =>
        /\ ret.raised = "none"
        /\ Len(ret.value) + Len(errors) = Len(call.files)
        /\ ret.value = EpisodesOf([i \in 1..Len(call.files) |->
                                      ParseFile(call.files[i])])
        /\ \A i \in 1..Len(errors) :
              \E j \in 1..Len(call.files) : errors[i].file = call.files[j].path
        /\ episodes_parsed = call.parsed_before + Len(ret.value)
        /\ Len(trace) = Len(call.files)

\* C24: within one verify_claim each configured adapter is searched exactly
\* once and contacts its provider at most once, the model is called at most
\* once and only after every search has returned, and the Source list is
\* built only after the reconciliation.
Count(e) == Cardinality({i \in 1..Len(trace) : trace[i] = e})

C24_SearchOnceThenModelOnce ==
    Returned("verify_claim") =>
        /\ \A a \in Adapters :
              /\ Count("search:" \o a) = (IF Searched(a, serpapi) THEN 1 ELSE 0)
              /\ Count("return:" \o a) = Count("search:" \o a)
              /\ Count("net:" \o a) <= 1
              /\ Occurs("llm") /\ Occurs("return:" \o a) =>
                    Position("return:" \o a) < Position("llm")
        /\ Count("llm") <= 1
        /\ Count("convert") <= 1
        /\ Occurs("convert") =>
              Occurs("llm") /\ Position("llm") < Position("convert")

C24_Witness ==
    /\ Returned("verify_claim")
    /\ serpapi
    /\ Count("net:perplexity") = 1
    /\ \A i \in 1..Len(call.evidence) : call.evidence[i].source_api # "perplexity"
    /\ Count("search:serpapi") = 1
    /\ Len(call.evidence) >= 2
    /\ Count("llm") = 1
    /\ Count("convert") = 1
    /\ ret.raised = "none"

\* C25: a claim item whose type is an unknown word, differs in letter case,
\* is missing or is null yields a claim of type "other" (the lower-cased
\* type when that is in the enumeration), and identification does not fail
\* because of a type value.
CoercedType(t) ==
    IF t \in {Absent, None} THEN "other"
    ELSE IF Lower(t) \in ClaimType THEN Lower(t) ELSE "other"

C25_UnknownTypeIsOther ==
    (/\ Returned("_identify_claims")
     /\ call.llm.kind = "json"
     /\ call.llm.body.is_dict
     /\ \A i \in 1..Len(call.llm.body.claims) :
           call.llm.body.claims[i].claim_text # None) =>
        /\ ret.raised = "none"
        /\ \A i \in 1..Len(call.llm.body.claims) :
              ret.value[i].claim_type = CoercedType(call.llm.body.claims[i].claim_type)

\* C26: the conversational-search adapter, given k >= 1 citations, emits
\* min(k, max_results) items, the item of rank i (from 0) with relevance
\* 1.0 - 0.1 * i, strictly decreasing and within [0, 1]; given no citation
\* but some answer text it emits one item with relevance 0.8; given neither
\* it emits nothing.
PerplexityAnswered ==
    /\ Returned("search")
    /\ call.adapter = "perplexity"
    /\ api_key["perplexity"]
    /\ call.response.kind = "ok"

C26_PerplexityScoring ==
    PerplexityAnswered =>
        /\ Len(call.response.items) >= 1 =>
              /\ Len(ret.value) = Min(Len(call.response.items), call.max_results)
              /\ \A i \in 1..Len(ret.value) :
                    /\ ret.value[i].score = 100 - 10 * (i - 1)
                    /\ ret.value[i].score >= 0 /\ ret.value[i].score <= 100
                    /\ i > 1 => ret.value[i].score < ret.value[i - 1].score
        /\ (call.response.items = <<>> /\ call.response.content > 0) =>
              /\ Len(ret.value) = 1
              /\ ret.value[1].score = 80
        /\ (call.response.items = <<>> /\ call.response.content = 0) =>
              ret.value = <<>>

(***************************************************************************)
(* C27.                                                                    *)
(***************************************************************************)
\* the answers for which _verify_claim() falls back: the call fails, the text
\* is not JSON, the confidence is a number outside [0, 1], or the status is
\* verified / incorrect with a confidence below 0.7
OutOfRange(c) == c.t = "num" /\ (c.n < 0 \/ c.n > 100)
FallsBack(llm) ==
    \/ llm.kind \in {"api_error", "non_json"}
    \/ /\ llm.kind = "json" /\ llm.body.is_dict
       /\ \/ OutOfRange(llm.body.confidence_score)
          \/ /\ llm.body.verification_status \in {"verified", "incorrect"}
             /\ llm.body.confidence_score.t = "num"
             /\ llm.body.confidence_score.n < HighConfidence

\* the answers whose only defect is a status string outside the enumeration
UnknownStatusAlone(llm) ==
    /\ llm.kind = "json" /\ llm.body.is_dict
    /\ llm.body.verification_status \notin StatusValues \cup {Absent, None}
    /\ llm.body.confidence_score.t = "num"
    /\ ~OutOfRange(llm.body.confidence_score)
    /\ llm.body.explanation \notin {Absent, None}
    /\ \A i \in 1..Len(llm.body.sources) :
          llm.body.sources[i] >= 0 /\ llm.body.sources[i] <= 100

\* C27: _verify_claim (knowledge-base path) returns a FactCheckResult for
\* every answer of the model; a failed call, a non-JSON text, an out-of-range
\* confidence and verified / incorrect below 0.7 give unable_to_verify with
\* confidence 0.3, the "Verification failed" explanation and no sources; an
\* unknown status string alone gives unable_to_verify with the model's
\* confidence and explanation
C27_VerifyKBAlwaysReturns ==
    Returned("_verify_claim") =>
        /\ ret.raised = "none"
        /\ ret.value.verification_status \in StatusValues
        /\ FallsBack(call.llm) =>
              /\ ret.value.verification_status = VerificationStatus["UNABLE_TO_VERIFY"]
              /\ ret.value.confidence_score = 30
              /\ ret.value.explanation = "Verification failed"
              /\ ret.value.sources = <<>>
        /\ UnknownStatusAlone(call.llm) =>
              /\ ret.value.verification_status = VerificationStatus["UNABLE_TO_VERIFY"]
              /\ ret.value.confidence_score = call.llm.body.confidence_score.n
              /\ ret.value.explanation = call.llm.body.explanation

\* the model said "verified" with confidence 0.3 and the fallback was returned
C27_Witness ==
    /\ Returned("_verify_claim")
    /\ call.llm = Json(JsonBody("verified", Num(30), "text", <<>>, <<>>))
    /\ ret.raised = "none"
    /\ ret.value.verification_status = VerificationStatus["UNABLE_TO_VERIFY"]
    /\ ret.value.confidence_score = 30
    /\ ret.value.explanation = "Verification failed"

(***************************************************************************)
(* C28.                                                                    *)
(***************************************************************************)
\* C28: for every parsed episode (at least one segment) and every JSON answer
\* of the model, _extract_quotes returns between 3 and 10 quotes, so the
\* quote-count validation of KeyNotes accepts them
C28_QuoteCountInRange ==
    (Returned("_extract_quotes") /\ call.llm.kind = "json") =>
        /\ ret.raised = "none"
        /\ Len(ret.value) >= 3 /\ Len(ret.value) <= 10
        /\ ValidateQuoteCount(ret.value)

(***************************************************************************)
(* C29.                                                                    *)
(***************************************************************************)
IsAttempt(e) == e[1] = "process_episode"
IsFinalize(e) == e[1] = "finalize"

\* C29: in the process command an exception while processing or saving one
\* episode does not stop the run: every episode is attempted exactly once in
\* order, reports holds exactly the episodes for which process_episode and
\* save_report both succeeded, in input order, and orchestrator.finalize is
\* then always reached
C29_RunNeverStops ==
    Returned("process") =>
        /\ SelectSeq(trace, IsAttempt) =
              [i \in 1..Len(call.runs) |-> <<"process_episode", i>>]
        /\ \A k \in 1..Len(call.reports) :
              /\ call.runs[call.reports[k]].stage = "ok"
              /\ k > 1 => call.reports[k - 1] < call.reports[k]
        /\ \A i \in 1..Len(call.runs) :
              call.runs[i].stage = "ok" =>
                 \E k \in 1..Len(call.reports) : call.reports[k] = i
        /\ Len(SelectSeq(trace, IsFinalize)) = 1
        /\ IsFinalize(trace[Len(trace)])

(***************************************************************************)
(* C30.                                                                    *)
(***************************************************************************)
CountersGrewBy(calls, tokens) ==
    /\ total_api_calls = call.calls_before + calls
    /\ total_tokens_used = call.tokens_before + tokens

\* C30: the usage counters count the generate calls that returned: a generate
\* call that returns adds 1 call and its token count, a generate call that
\* raises leaves both counters unchanged (inside generate_json as well), and
\* reset_stats sets both to 0
C30_CountersCountSuccesses ==
    /\ Returned("generate") =>
          IF ret.raised = "none" THEN CountersGrewBy(1, call.llm.tokens)
                                 ELSE CountersGrewBy(0, 0)
    /\ Returned("generate_json") =>
          IF Generate(call.llm).raised = "none" THEN CountersGrewBy(1, call.llm.tokens)
                                                ELSE CountersGrewBy(0, 0)
    /\ Returned("reset_stats") => total_api_calls = 0 /\ total_tokens_used = 0

====
